---- MODULE Spec2Model ----
(***************************************************************************)
(* A model of github-scanner: the server's verdict resolver                *)
(* (evaluatePolicy), its access record builder                             *)
(* (FetchRepositoryPermissions), its organization scan (ScanOrganization,  *)
(* scanRepository) and the client's scan aggregator (invokePolicyScan,     *)
(* printFinalSummary, in the counting and in the strict variant of         *)
(* grpc_client.go).                                                        *)
(*                                                                         *)
(* Go strings are sequences of one-character strings, so that              *)
(* strings.ToLower, strings.Contains, strings.TrimSpace and concatenation  *)
(* are computed rather than assumed.  A nil error is the empty sequence.   *)
(***************************************************************************)
EXTENDS Naturals, Sequences, FiniteSets, TLC

VARIABLES
    oracleOut,   \* what rego's PrepareForEval / Eval give for the evaluation at hand
    verdict,     \* what evaluatePolicy returned: [success, err]
    evalPc,      \* "idle" | "call" | "done": position of the evaluatePolicy call
    allowOnly,   \* the allow-only evaluatePolicy on the same policy and input:
                 \* [out, verdict], what its query gave and what it returned
    variant,     \* "none" | "count" | "strict": which grpc_client.go is running
    clientPc,    \* "idle" | "scan" | "wait" | "print" | "done" | "panic"
    lastRes,     \* (res, err) of the latest ScanRepositories call, until the next call
    summaries,   \* invokePolicyScan's summaries, in append order
    report,      \* the "Result:" line printFinalSummary printed per summary
    totals,      \* printFinalSummary's totalSuccess, totalFailure, totalError
    access,      \* what the provider answers to FetchRepositoryPermissions' lookups
    permissions, \* what FetchRepositoryPermissions returned
    fetchPc,     \* "idle" | "call" | "done": position of the FetchRepositoryPermissions call
    scanPc,      \* "idle" | "list" | "scan" | "done" | "fatal": position in ScanOrganization
    policyErr,   \* what compiling the scan's policy gives: nil or PrepareForEval's error
    orgSize,     \* how many repositories the organization has
    optPage,     \* opt.Page of the next ListByOrg request
    allRepos,    \* the repositories listed so far (their names)
    scanInputs,  \* per scanned repository: the provider's answers and the oracle's outcome
    scannedRepos, \* ScanOrganization's records, in append order
    orgName,     \* the ORG_NAME environment variable, "" when it is not set
    rpcPc,       \* "idle" | "recv" | "scan" | "replied" | "exit": the ScanRepositories handler
    rpcRes,      \* the PolicyResponse the handler returned
    token,       \* the GITHUB_TOKEN environment variable, "" when it is not set
    once,        \* github_client.go: [done, client, built] of gitHubClientOnce and gitHubClient
    GitHubClient, \* the package variable InitGitHubClient writes, 0 for nil
    view,        \* per caller: the value of GitHubClient its unsynchronised reads see
    callerPc,    \* per caller: "idle" | "start" | "get" | "store" | "use" | "local" | "done" | "panic" | "exit"
    got,         \* per caller: what getGitHubClient returned to it
    used         \* per caller: the client it made its provider call with

resolverVars == <<oracleOut, verdict, evalPc, allowOnly>>
clientVars == <<variant, clientPc, lastRes, summaries, report, totals>>
fetchVars == <<access, permissions, fetchPc>>
scanVars == <<scanPc, policyErr, orgSize, optPage, allRepos, scanInputs, scannedRepos>>
handlerVars == <<orgName, rpcPc, rpcRes>>
initVars == <<token, once, GitHubClient, view, callerPc, got, used>>
processVars == <<handlerVars, initVars>>
vars ==
    <<oracleOut, verdict, evalPc, allowOnly, variant, clientPc, lastRes, summaries, report, totals,
      access, permissions, fetchPc,
      scanPc, policyErr, orgSize, optPage, allRepos, scanInputs, scannedRepos,
      orgName, rpcPc, rpcRes,
      token, once, GitHubClient, view, callerPc, got, used>>

-----------------------------------------------------------------------------
(* Bounds *)

\* longest rego.ResultSet the oracle returns
MaxResults == 2
\* most expressions in one rego.Result
MaxExprs == 2
\* most repositories in one PolicyResponse
MaxRepos == 2
\* number of policies the client scans with
NumPolicies == 2
\* most collaborators ListCollaborators lists for one repository
MaxCollaborators == 2
\* most teams ListTeams lists for one repository
MaxTeams == 2
\* number of concurrent callers of InitGitHubClient
NumCallers == 3

-----------------------------------------------------------------------------
(* String literals of the source *)
\* "Success"
S_Success ==
    <<"S","u","c","c","e","s","s">>
\* "Failure"
S_Failure ==
    <<"F","a","i","l","u","r","e">>
\* "success"
S_success ==
    <<"s","u","c","c","e","s","s">>
\* "failure"
S_failure ==
    <<"f","a","i","l","u","r","e">>
\* "error"
S_error ==
    <<"e","r","r","o","r">>
\* "failed"
S_failed ==
    <<"f","a","i","l","e","d">>
\* "failed to prepare rego query: "
S_PrepPrefix ==
    <<"f","a","i","l","e","d"," ","t","o"," ","p","r","e","p","a","r","e"," ","r","e","g","o"," ","q","u","e","r","y",":"," ">>
\* "failed to evaluate policy: "
S_EvalPrefix ==
    <<"f","a","i","l","e","d"," ","t","o"," ","e","v","a","l","u","a","t","e"," ","p","o","l","i","c","y",":"," ">>
\* "invalid policy evaluation result format"
S_InvalidFormat ==
    <<"i","n","v","a","l","i","d"," ","p","o","l","i","c","y"," ","e","v","a","l","u","a","t","i","o","n"," ","r","e","s","u","l","t"," ","f","o","r","m","a","t">>
\* "Nil response from server"
S_NilResponse ==
    <<"N","i","l"," ","r","e","s","p","o","n","s","e"," ","f","r","o","m"," ","s","e","r","v","e","r">>
\* "user"
S_user ==
    <<"u","s","e","r">>
\* "team:"
S_teamPrefix ==
    <<"t","e","a","m",":">>
\* " | Scan Result: "
S_ScanResultSep ==
    <<" ","|"," ","S","c","a","n"," ","R","e","s","u","l","t",":"," ">>
\* "Rego Parsing Error"
S_RegoParsingError ==
    <<"R","e","g","o"," ","P","a","r","s","i","n","g"," ","E","r","r","o","r">>
\* "rego_parse_error"
S_rego_parse_error ==
    <<"r","e","g","o","_","p","a","r","s","e","_","e","r","r","o","r">>
\* "ORG_NAME environment variable is missing"
S_OrgNameMissing ==
    <<"O","R","G","_","N","A","M","E"," ","e","n","v","i","r","o","n","m","e","n","t"," ","v","a","r","i","a","b","l","e"," ","i","s"," ","m","i","s","s","i","n","g">>

\* nil error, and the empty string
Nil == <<>>

-----------------------------------------------------------------------------
(* Texts the environment supplies: errors of the rego engine and of the    *)
(* transport, labels a reply may carry                                     *)
\* "rego_type_error"
S_rego_type_error ==
    <<"r","e","g","o","_","t","y","p","e","_","e","r","r","o","r">>
\* "eval_conflict_error"
S_eval_conflict_error ==
    <<"e","v","a","l","_","c","o","n","f","l","i","c","t","_","e","r","r","o","r">>
\* "network timeout"
S_NetworkTimeout ==
    <<"n","e","t","w","o","r","k"," ","t","i","m","e","o","u","t">>
\* logins, team slugs, role labels, repository names and the organization
S_ann ==
    <<"a","n","n">>
S_bob ==
    <<"b","o","b">>
S_dev ==
    <<"d","e","v">>
S_ops ==
    <<"o","p","s">>
S_admin ==
    <<"a","d","m","i","n">>
S_read ==
    <<"r","e","a","d">>
S_Org ==
    <<"o","r","g">>
\* a value of GITHUB_TOKEN
S_Token ==
    <<"t","o","k">>
\* "scan error: timeout"
S_ScanErrorTimeout ==
    <<"s","c","a","n"," ","e","r","r","o","r",":"," ","t","i","m","e","o","u","t">>
\* "context deadline exceeded"
S_DeadlineExceeded ==
    <<"c","o","n","t","e","x","t"," ","d","e","a","d","l","i","n","e"," ","e","x","c","e","e","d","e","d">>

-----------------------------------------------------------------------------
(* package strings *)

\* unicode.ToLower on the upper-case ASCII letters
LowerOfUpper ==
    [A |-> "a", B |-> "b", C |-> "c", D |-> "d", E |-> "e", F |-> "f", G |-> "g",
     H |-> "h", I |-> "i", J |-> "j", K |-> "k", L |-> "l", M |-> "m", N |-> "n",
     O |-> "o", P |-> "p", Q |-> "q", R |-> "r", S |-> "s", T |-> "t", U |-> "u",
     V |-> "v", W |-> "w", X |-> "x", Y |-> "y", Z |-> "z"]

ToLowerChar(c) == IF c \in DOMAIN LowerOfUpper THEN LowerOfUpper[c] ELSE c

\* strings.ToLower
ToLower(s) == [i \in 1..Len(s) |-> ToLowerChar(s[i])]

\* strings.Contains
Contains(s, substr) ==
    \E i \in 0..Len(s) :
        /\ i + Len(substr) <= Len(s)
        /\ \A j \in 1..Len(substr) : s[i + j] = substr[j]

IsSpace(c) == c \in {" ", "\t", "\n", "\r"}

RECURSIVE TrimLeft(_)
TrimLeft(s) ==
    IF s # <<>> /\ IsSpace(Head(s)) THEN TrimLeft(Tail(s)) ELSE s

RECURSIVE TrimRight(_)
TrimRight(s) ==
    IF s # <<>> /\ IsSpace(s[Len(s)]) THEN TrimRight(SubSeq(s, 1, Len(s) - 1)) ELSE s

\* strings.TrimSpace
TrimSpace(s) == TrimRight(TrimLeft(s))

-----------------------------------------------------------------------------
(* The rego result evaluatePolicy reads: interface{} values by dynamic     *)
(* type.  A value is [kind, b, m]: kind is the Go type ("bool", "string",  *)
(* "map"), b the boolean (for a string: whether it spells "true"), m the   *)
(* entries of a map[string]interface{} as a function from its keys.        *)

GoBool(v) == [kind |-> "bool", b |-> v, m |-> <<>>]
GoStringTrue == [kind |-> "string", b |-> TRUE, m |-> <<>>]
GoMap(f) == [kind |-> "map", b |-> FALSE, m |-> f]

SignalNames == {"deny", "allow"}
SignalValues == {GoBool(TRUE), GoBool(FALSE), GoStringTrue}

\* every map with any of "deny", "allow" present, each a bool or a string
SignalSets == UNION {[D -> SignalValues] : D \in SUBSET SignalNames}

\* Expressions[i].Value: a map (query data.repository), or a bare bool or
\* string (what a query such as data.repository.allow gives)
ExprValues == {GoMap(f) : f \in SignalSets} \cup {GoBool(TRUE), GoBool(FALSE), GoStringTrue}

\* what the expressions and results after the first one hold
LaterValues == {GoMap([k \in {"allow"} |-> GoBool(TRUE)]), GoBool(TRUE)}

ExprLists ==
    {<<>>} \cup
    UNION {{<<v>> \o rest : v \in ExprValues, rest \in [1..(n - 1) -> LaterValues]} :
           n \in 1..MaxExprs}

LaterResults == {[Expressions |-> <<>>], [Expressions |-> <<GoMap([k \in {"allow"} |-> GoBool(TRUE)])>>]}

ResultSets ==
    {<<>>} \cup
    UNION {{<<[Expressions |-> e]>> \o rest : e \in ExprLists, rest \in [1..(n - 1) -> LaterResults]} :
           n \in 1..MaxResults}

PrepareErrors == {S_rego_parse_error, S_rego_type_error}
EvalErrors == {S_eval_conflict_error, S_NetworkTimeout}

\* one run of the oracle: PrepareForEval's error, Eval's error, Eval's result set
OracleOutcomes ==
    {[prepErr |-> e, evalErr |-> Nil, rs |-> <<>>] : e \in PrepareErrors}
    \cup {[prepErr |-> Nil, evalErr |-> e, rs |-> <<>>] : e \in EvalErrors}
    \cup {[prepErr |-> Nil, evalErr |-> Nil, rs |-> r] : r \in ResultSets}

-----------------------------------------------------------------------------
(* evaluatePolicy *)

\* BoolSignal taking any value that is not a bool for true
BoolSignal_AnyKind(m, key) ==
    /\ key \in DOMAIN m
    /\ (m[key].kind # "bool" \/ m[key].b)

\* v, ok := m[key].(bool); ok && v
BoolSignal(m, key) ==
    /\ key \in DOMAIN m
    /\ m[key].kind = "bool"
    /\ m[key].b

Verdict(success, err) == [success |-> success, err |-> err]

\* evaluatePolicy with the allow check placed before the deny check
evaluatePolicy_AllowFirst(o) ==
    IF o.prepErr # Nil THEN Verdict(FALSE, S_PrepPrefix \o o.prepErr)
    ELSE IF o.evalErr # Nil THEN Verdict(FALSE, S_EvalPrefix \o o.evalErr)
    ELSE IF Len(o.rs) > 0 /\ Len(o.rs[1].Expressions) > 0
    THEN LET policyResults == o.rs[1].Expressions[1]
         IN  IF policyResults.kind # "map" THEN Verdict(FALSE, S_InvalidFormat)
             ELSE IF BoolSignal(policyResults.m, "allow") THEN Verdict(TRUE, Nil)
             ELSE IF BoolSignal(policyResults.m, "deny") THEN Verdict(FALSE, Nil)
             ELSE Verdict(FALSE, Nil)
    ELSE Verdict(FALSE, Nil)

\* evaluatePolicy denying on the presence of "deny" (exists), not on its value
evaluatePolicy_DenyIfPresent(o) ==
    IF o.prepErr # Nil THEN Verdict(FALSE, S_PrepPrefix \o o.prepErr)
    ELSE IF o.evalErr # Nil THEN Verdict(FALSE, S_EvalPrefix \o o.evalErr)
    ELSE IF Len(o.rs) > 0 /\ Len(o.rs[1].Expressions) > 0
    THEN LET policyResults == o.rs[1].Expressions[1]
         IN  IF policyResults.kind # "map" THEN Verdict(FALSE, S_InvalidFormat)
             ELSE IF "deny" \in DOMAIN policyResults.m THEN Verdict(FALSE, Nil)
             ELSE IF BoolSignal(policyResults.m, "allow") THEN Verdict(TRUE, Nil)
             ELSE Verdict(FALSE, Nil)
    ELSE Verdict(FALSE, Nil)

\* evaluatePolicy allowing on the presence of "allow" (exists), not on its value
evaluatePolicy_AllowIfPresent(o) ==
    IF o.prepErr # Nil THEN Verdict(FALSE, S_PrepPrefix \o o.prepErr)
    ELSE IF o.evalErr # Nil THEN Verdict(FALSE, S_EvalPrefix \o o.evalErr)
    ELSE IF Len(o.rs) > 0 /\ Len(o.rs[1].Expressions) > 0
    THEN LET policyResults == o.rs[1].Expressions[1]
         IN  IF policyResults.kind # "map" THEN Verdict(FALSE, S_InvalidFormat)
             ELSE IF BoolSignal(policyResults.m, "deny") THEN Verdict(FALSE, Nil)
             ELSE IF "allow" \in DOMAIN policyResults.m THEN Verdict(TRUE, Nil)
             ELSE Verdict(FALSE, Nil)
    ELSE Verdict(FALSE, Nil)

\* evaluatePolicy with the format error moved to the end, so that it also
\* answers an empty result set
evaluatePolicy_EmptyIsError(o) ==
    IF o.prepErr # Nil THEN Verdict(FALSE, S_PrepPrefix \o o.prepErr)
    ELSE IF o.evalErr # Nil THEN Verdict(FALSE, S_EvalPrefix \o o.evalErr)
    ELSE IF Len(o.rs) > 0 /\ Len(o.rs[1].Expressions) > 0
    THEN LET policyResults == o.rs[1].Expressions[1]
         IN  IF policyResults.kind # "map" THEN Verdict(FALSE, S_InvalidFormat)
             ELSE IF BoolSignal(policyResults.m, "deny") THEN Verdict(FALSE, Nil)
             ELSE IF BoolSignal(policyResults.m, "allow") THEN Verdict(TRUE, Nil)
             ELSE Verdict(FALSE, Nil)
    ELSE Verdict(FALSE, S_InvalidFormat)

\* evaluatePolicy with the type assertion's ok ignored: a value that is no map
\* reads as an empty map
evaluatePolicy_IgnoreOk(o) ==
    IF o.prepErr # Nil THEN Verdict(FALSE, S_PrepPrefix \o o.prepErr)
    ELSE IF o.evalErr # Nil THEN Verdict(FALSE, S_EvalPrefix \o o.evalErr)
    ELSE IF Len(o.rs) > 0 /\ Len(o.rs[1].Expressions) > 0
    THEN LET policyResults == o.rs[1].Expressions[1]
         IN  IF BoolSignal(policyResults.m, "deny") THEN Verdict(FALSE, Nil)
             ELSE IF BoolSignal(policyResults.m, "allow") THEN Verdict(TRUE, Nil)
             ELSE Verdict(FALSE, Nil)
    ELSE Verdict(FALSE, Nil)

evaluatePolicy(o) ==
    IF o.prepErr # Nil THEN Verdict(FALSE, S_PrepPrefix \o o.prepErr)
    ELSE IF o.evalErr # Nil THEN Verdict(FALSE, S_EvalPrefix \o o.evalErr)
    ELSE IF Len(o.rs) > 0 /\ Len(o.rs[1].Expressions) > 0
    THEN LET policyResults == o.rs[1].Expressions[1]
         IN  IF policyResults.kind # "map" THEN Verdict(FALSE, S_InvalidFormat)
             ELSE IF BoolSignal(policyResults.m, "deny") THEN Verdict(FALSE, Nil)
             ELSE IF BoolSignal(policyResults.m, "allow") THEN Verdict(TRUE, Nil)
             ELSE Verdict(FALSE, Nil)
    ELSE Verdict(FALSE, Nil)

-----------------------------------------------------------------------------
(* The allow-only evaluatePolicy of README.md, query data.repository.allow *)

\* the allow-only evaluatePolicy returning true for any value of allow
evaluatePolicyAllowOnly_AnyValue(o) ==
    IF o.prepErr # Nil THEN Verdict(FALSE, S_PrepPrefix \o o.prepErr)
    ELSE IF o.evalErr # Nil THEN Verdict(FALSE, S_EvalPrefix \o o.evalErr)
    ELSE IF Len(o.rs) > 0 /\ Len(o.rs[1].Expressions) > 0
    THEN Verdict(TRUE, Nil)
    ELSE Verdict(FALSE, Nil)

\* result, ok := rs[0].Expressions[0].Value.(bool); ok && result
evaluatePolicyAllowOnly(o) ==
    IF o.prepErr # Nil THEN Verdict(FALSE, S_PrepPrefix \o o.prepErr)
    ELSE IF o.evalErr # Nil THEN Verdict(FALSE, S_EvalPrefix \o o.evalErr)
    ELSE IF Len(o.rs) > 0 /\ Len(o.rs[1].Expressions) > 0
    THEN LET result == o.rs[1].Expressions[1]
         IN  IF result.kind = "bool" /\ result.b THEN Verdict(TRUE, Nil)
             ELSE Verdict(FALSE, Nil)
    ELSE Verdict(FALSE, Nil)

\* the oracle ran without error and the package's value is a map
IsPackageMap(o) ==
    /\ o.prepErr = Nil
    /\ o.evalErr = Nil
    /\ Len(o.rs) > 0
    /\ Len(o.rs[1].Expressions) > 0
    /\ o.rs[1].Expressions[1].kind = "map"

\* what the query data.repository.allow gives when the query data.repository
\* gives o on the same policy and input: the same error; the value of "allow"
\* in the package's map, or no result when the map has none; and any of its
\* results when o is not a map of the package
AllowQueryOutcomes(o) ==
    IF o.prepErr # Nil \/ o.evalErr # Nil THEN {o}
    ELSE IF IsPackageMap(o)
    THEN LET package == o.rs[1].Expressions[1].m
         IN  IF "allow" \in DOMAIN package
             THEN {[prepErr |-> Nil, evalErr |-> Nil,
                    rs |-> <<[Expressions |-> <<package["allow"]>>]>>]}
             ELSE {[prepErr |-> Nil, evalErr |-> Nil, rs |-> <<>>]}
    ELSE {[prepErr |-> Nil, evalErr |-> Nil, rs |-> <<>>]}
         \cup {[prepErr |-> Nil, evalErr |-> Nil, rs |-> <<[Expressions |-> <<v>>]>>] :
                  v \in SignalValues}

NoVerdict == [success |-> FALSE, err |-> <<"-">>]
NoOracle == [prepErr |-> Nil, evalErr |-> Nil, rs |-> <<>>]

\* the allow-only evaluatePolicy has not run
NotRun == [out |-> NoOracle, verdict |-> NoVerdict]

ResolverIdle ==
    /\ oracleOut = NoOracle
    /\ verdict = NoVerdict
    /\ evalPc = "idle"
    /\ allowOnly = NotRun

ClientIdle ==
    /\ variant = "none"
    /\ clientPc = "idle"
    /\ lastRes = [err |-> Nil, res |-> [isNil |-> TRUE, Error |-> Nil, Repositories |-> <<>>]]
    /\ summaries = <<>>
    /\ report = <<>>
    /\ totals = [success |-> 0, failure |-> 0, error |-> 0]

FetchIdle ==
    /\ access = [collabErr |-> FALSE, collaborators |-> <<>>, teamsErr |-> FALSE, teams |-> <<>>]
    /\ permissions = <<>>
    /\ fetchPc = "idle"

ScanIdle ==
    /\ scanPc = "idle"
    /\ policyErr = Nil
    /\ orgSize = 0
    /\ optPage = 0
    /\ allRepos = <<>>
    /\ scanInputs = <<>>
    /\ scannedRepos = <<>>

\* PolicyResponse{}
NoResponse == [Error |-> Nil, Repositories |-> <<>>]

HandlerIdle ==
    /\ orgName = Nil
    /\ rpcPc = "idle"
    /\ rpcRes = NoResponse

Callers == 1..NumCallers

\* gitHubClientOnce not yet run, gitHubClient nil, nothing constructed
OnceNew == [done |-> FALSE, client |-> 0, built |-> 0]

ClientInitIdle ==
    /\ token = Nil
    /\ once = OnceNew
    /\ GitHubClient = 0
    /\ view = [c \in Callers |-> 0]
    /\ callerPc = [c \in Callers |-> "idle"]
    /\ got = [c \in Callers |-> 0]
    /\ used = [c \in Callers |-> 0]

ProcessIdle == HandlerIdle /\ ClientInitIdle

InitResolver ==
    /\ oracleOut \in OracleOutcomes
    /\ verdict = NoVerdict
    /\ evalPc = "call"
    /\ allowOnly = NotRun
    /\ ClientIdle
    /\ FetchIdle
    /\ ScanIdle
    /\ ProcessIdle

\* success, err := evaluatePolicy(policy, repoInfo)
EvaluatePolicy ==
    /\ evalPc = "call"
    /\ verdict' = evaluatePolicy(oracleOut)
    /\ evalPc' = "done"
    /\ UNCHANGED <<oracleOut, allowOnly, clientVars, fetchVars, scanVars, processVars>>

\* the allow-only evaluatePolicy is run on the same policy and input
EvaluatePolicyAllowOnly ==
    /\ evalPc # "idle"
    /\ allowOnly = NotRun
    /\ \E out \in AllowQueryOutcomes(oracleOut) :
          allowOnly' = [out |-> out, verdict |-> evaluatePolicyAllowOnly(out)]
    /\ UNCHANGED <<oracleOut, verdict, evalPc, clientVars, fetchVars, scanVars, processVars>>

NextResolver == EvaluatePolicy \/ EvaluatePolicyAllowOnly

SpecResolver == InitResolver /\ [][NextResolver]_vars

-----------------------------------------------------------------------------
(* The client, grpc_client.go: what a ScanRepositories call can return *)

\* scan-result labels a reply's repositories carry
ScanLabels ==
    {S_Success, S_Failure, S_InvalidFormat, S_RegoParsingError,
     S_ScanErrorTimeout, S_EvalPrefix \o S_NetworkTimeout}

RepoLists == UNION {[1..n -> [ScanResult : ScanLabels]] : n \in 0..MaxRepos}

\* res == nil
NilResponse == [isNil |-> TRUE, Error |-> Nil, Repositories |-> <<>>]

PolicyResponses ==
    {[isNil |-> FALSE, Error |-> e, Repositories |-> r] :
        e \in {Nil, S_OrgNameMissing}, r \in RepoLists}

\* (res, err) of the generated stub: (nil, err) when the call fails, (out, nil) otherwise
Replies ==
    {[err |-> S_DeadlineExceeded, res |-> NilResponse]}
    \cup {[err |-> Nil, res |-> r] : r \in PolicyResponses}

PolicyDigits == <<"1", "2", "3", "4", "5", "6", "7", "8", "9">>

\* the i-th entry of policies: a text with leading and trailing white space
policies == [i \in 1..NumPolicies |-> <<"\n", "\t", "p", PolicyDigits[i], "\n", "\t">>]

-----------------------------------------------------------------------------
(* invokePolicyScan, counting variant (PolicySummary with FailureCount) *)

CountSummary(policy, error, message, success, failures) ==
    [Policy |-> policy, Error |-> error, ErrorMessage |-> message,
     Success |-> success, FailureCount |-> failures]

\* TallyRepo recording a failure as a flag (= 1) instead of counting it
TallyRepo_FlagFailure(summary, repo) ==
    LET result == ToLower(repo.ScanResult)
    IN  IF result = S_failure
        THEN [summary EXCEPT !.FailureCount = 1]
        ELSE IF result = S_success
        THEN [summary EXCEPT !.Success = TRUE]
        ELSE summary

\* TallyRepo with Success following the latest repository: a failure clears it
TallyRepo_LastWins(summary, repo) ==
    LET result == ToLower(repo.ScanResult)
    IN  IF result = S_failure
        THEN [summary EXCEPT !.FailureCount = @ + 1, !.Success = FALSE]
        ELSE IF result = S_success
        THEN [summary EXCEPT !.Success = TRUE]
        ELSE summary

\* case "failure": summary.FailureCount++ ; case "success": summary.Success = true
TallyRepo(summary, repo) ==
    LET result == ToLower(repo.ScanResult)
    IN  IF result = S_failure
        THEN [summary EXCEPT !.FailureCount = @ + 1]
        ELSE IF result = S_success
        THEN [summary EXCEPT !.Success = TRUE]
        ELSE summary

\* for _, repo := range res.Repositories
RECURSIVE TallyRepos(_, _)
TallyRepos(summary, repos) ==
    IF repos = <<>> THEN summary
    ELSE TallyRepos(TallyRepo(summary, Head(repos)), Tail(repos))

\* ScanSummary tallying the repositories of a response that carries an error
ScanSummary_TallyOnError(policy, reply) ==
    IF reply.err # Nil
    THEN CountSummary(TrimSpace(policy), TRUE, reply.err, FALSE, 0)
    ELSE IF reply.res.isNil
    THEN CountSummary(TrimSpace(policy), TRUE, S_NilResponse, FALSE, 0)
    ELSE TallyRepos(CountSummary(TrimSpace(policy), reply.res.Error # Nil,
                                 reply.res.Error, FALSE, 0),
                    reply.res.Repositories)

\* one iteration of the loop over policies: the summary it appends
ScanSummary(policy, reply) ==
    IF reply.err # Nil
    THEN CountSummary(TrimSpace(policy), TRUE, reply.err, FALSE, 0)
    ELSE IF reply.res.isNil
    THEN CountSummary(TrimSpace(policy), TRUE, S_NilResponse, FALSE, 0)
    ELSE IF reply.res.Error # Nil
    THEN CountSummary(TrimSpace(policy), TRUE, reply.res.Error, FALSE, 0)
    ELSE TallyRepos(CountSummary(TrimSpace(policy), FALSE, Nil, FALSE, 0),
                    reply.res.Repositories)

-----------------------------------------------------------------------------
(* invokePolicyScan, strict variant (PolicySummary with a Failure flag) *)

StrictSummary(policy, success, failure, error, message) ==
    [Policy |-> policy, Success |-> success, Failure |-> failure,
     Error |-> error, ErrorMessage |-> message]

\* LooksLikeError without strings.ToLower: the label is searched as it is
LooksLikeError_CaseSensitive(label) ==
    Contains(label, S_error) \/ Contains(label, S_failed)

\* strings.Contains(strings.ToLower(repo.ScanResult), "error") || ... "failed")
LooksLikeError(label) ==
    LET lower == ToLower(label)
    IN  Contains(lower, S_error) \/ Contains(lower, S_failed)

\* the loop that stops (break) at the first repository whose label looks like an error
RECURSIVE ScanForError(_, _)
ScanForError(errorMessage, repos) ==
    IF repos = <<>> THEN errorMessage
    ELSE IF LooksLikeError(Head(repos).ScanResult)
    THEN errorMessage \o S_ScanResultSep \o Head(repos).ScanResult
    ELSE ScanForError(errorMessage, Tail(repos))

\* if result == "failure" { Failure = true } else if result == "success" { Success = true }
FlagRepo(summary, repo) ==
    LET result == ToLower(repo.ScanResult)
    IN  IF result = S_failure
        THEN [summary EXCEPT !.Failure = TRUE]
        ELSE IF result = S_success
        THEN [summary EXCEPT !.Success = TRUE]
        ELSE summary

RECURSIVE FlagRepos(_, _)
FlagRepos(summary, repos) ==
    IF repos = <<>> THEN summary
    ELSE FlagRepos(FlagRepo(summary, Head(repos)), Tail(repos))

\* res.Error and res.Repositories are read through res: a nil res panics
StrictPanics(reply) == reply.res.isNil

\* StrictScanSummary starting from the call's error only: res.Error is not read
StrictScanSummary_DropTopLevel(policy, reply) ==
    LET base == IF reply.err # Nil THEN reply.err ELSE Nil
        errorMessage == ScanForError(base, reply.res.Repositories)
    IN  IF errorMessage # Nil
        THEN StrictSummary(TrimSpace(policy), FALSE, FALSE, TRUE, errorMessage)
        ELSE FlagRepos(StrictSummary(TrimSpace(policy), FALSE, FALSE, FALSE, Nil),
                       reply.res.Repositories)

\* one iteration of the loop over policies (res not nil): the summary it appends
StrictScanSummary(policy, reply) ==
    LET base == IF reply.err # Nil THEN reply.err
                ELSE IF reply.res.Error # Nil THEN reply.res.Error
                ELSE Nil
        errorMessage == ScanForError(base, reply.res.Repositories)
    IN  IF errorMessage # Nil
        THEN StrictSummary(TrimSpace(policy), FALSE, FALSE, TRUE, errorMessage)
        ELSE FlagRepos(StrictSummary(TrimSpace(policy), FALSE, FALSE, FALSE, Nil),
                       reply.res.Repositories)

-----------------------------------------------------------------------------
(* printFinalSummary *)

ReportLine(kind, message, count) == [kind |-> kind, message |-> message, count |-> count]

\* PrintCount with the last branch printing SUCCESS: nothing matched, nothing failed
PrintCount_DefaultSuccess(summary) ==
    IF summary.Error THEN ReportLine("ERROR", summary.ErrorMessage, 0)
    ELSE IF summary.FailureCount > 0 THEN ReportLine("FAILURE", Nil, summary.FailureCount)
    ELSE ReportLine("SUCCESS", Nil, 0)

\* the "Result:" line of one summary, counting variant
PrintCount(summary) ==
    IF summary.Error THEN ReportLine("ERROR", summary.ErrorMessage, 0)
    ELSE IF summary.FailureCount > 0 THEN ReportLine("FAILURE", Nil, summary.FailureCount)
    ELSE IF summary.Success THEN ReportLine("SUCCESS", Nil, 0)
    ELSE ReportLine("ERROR (NO MATCHING CONDITION)", Nil, 0)

\* the "Result:" line of one summary, strict variant
PrintStrict(summary) ==
    IF summary.Error THEN ReportLine("ERROR", summary.ErrorMessage, 0)
    ELSE IF summary.Failure THEN ReportLine("FAILURE", Nil, 0)
    ELSE IF summary.Success THEN ReportLine("SUCCESS", Nil, 0)
    ELSE ReportLine("ERROR (NO MATCHING CONDITION)", Nil, 0)

PrintLine(v, summary) == IF v = "count" THEN PrintCount(summary) ELSE PrintStrict(summary)

\* AddTotal leaving a line that matched no condition out of every total
AddTotal_SkipNoMatch(t, line) ==
    IF line.kind = "SUCCESS" THEN [t EXCEPT !.success = @ + 1]
    ELSE IF line.kind = "FAILURE" THEN [t EXCEPT !.failure = @ + 1]
    ELSE IF line.kind = "ERROR" THEN [t EXCEPT !.error = @ + 1]
    ELSE t

\* totalSuccess++, totalFailure++ or totalError++ for one printed line
AddTotal(t, line) ==
    IF line.kind = "SUCCESS" THEN [t EXCEPT !.success = @ + 1]
    ELSE IF line.kind = "FAILURE" THEN [t EXCEPT !.failure = @ + 1]
    ELSE [t EXCEPT !.error = @ + 1]

RECURSIVE SumTotals(_, _)
SumTotals(t, lines) ==
    IF lines = <<>> THEN t ELSE SumTotals(AddTotal(t, Head(lines)), Tail(lines))

-----------------------------------------------------------------------------
(* The client's run *)

NoReply == [err |-> Nil, res |-> NilResponse]
ZeroTotals == [success |-> 0, failure |-> 0, error |-> 0]

InitClient ==
    /\ variant \in {"count", "strict"}
    /\ clientPc = "scan"
    /\ lastRes = NoReply
    /\ summaries = <<>>
    /\ report = <<>>
    /\ totals = ZeroTotals
    /\ ResolverIdle
    /\ FetchIdle
    /\ ScanIdle
    /\ ProcessIdle

AfterScan(n) == IF n = NumPolicies THEN "print" ELSE "scan"

\* client.ScanRepositories(ctx, &pb.PolicyRequest{Policy: policy}) is sent for
\* the next policy; res and err of the previous iteration are out of scope
CallScanRepositories ==
    /\ clientPc = "scan"
    /\ Len(summaries) < NumPolicies
    /\ clientPc' = "wait"
    /\ lastRes' = NoReply
    /\ UNCHANGED <<variant, summaries, report, totals, resolverVars, fetchVars, scanVars, processVars>>

\* counting variant: the call returns and the policy's summary is appended
InvokePolicyScan ==
    /\ variant = "count"
    /\ clientPc = "wait"
    /\ \E reply \in Replies :
        /\ lastRes' = reply
        /\ summaries' = Append(summaries, ScanSummary(policies[Len(summaries) + 1], reply))
    /\ clientPc' = AfterScan(Len(summaries) + 1)
    /\ UNCHANGED <<variant, report, totals, resolverVars, fetchVars, scanVars, processVars>>

\* strict variant: the call returns and the policy's summary is appended
InvokePolicyScanStrict ==
    /\ variant = "strict"
    /\ clientPc = "wait"
    /\ \E reply \in Replies :
        /\ ~StrictPanics(reply)
        /\ lastRes' = reply
        /\ summaries' = Append(summaries, StrictScanSummary(policies[Len(summaries) + 1], reply))
    /\ clientPc' = AfterScan(Len(summaries) + 1)
    /\ UNCHANGED <<variant, report, totals, resolverVars, fetchVars, scanVars, processVars>>

\* strict variant: the call failed, res is nil, and reading res.Repositories panics
InvokePolicyScanStrictPanic ==
    /\ variant = "strict"
    /\ clientPc = "wait"
    /\ \E reply \in Replies :
        /\ StrictPanics(reply)
        /\ lastRes' = reply
    /\ clientPc' = "panic"
    /\ UNCHANGED <<variant, summaries, report, totals, resolverVars, fetchVars, scanVars, processVars>>

\* printFinalSummary(summaries)
PrintFinalSummary ==
    /\ clientPc = "print"
    /\ report' = [i \in 1..Len(summaries) |-> PrintLine(variant, summaries[i])]
    /\ totals' = SumTotals(ZeroTotals, report')
    /\ clientPc' = "done"
    /\ UNCHANGED <<variant, lastRes, summaries, resolverVars, fetchVars, scanVars, processVars>>

NextClient ==
    \/ CallScanRepositories
    \/ InvokePolicyScan
    \/ InvokePolicyScanStrict
    \/ InvokePolicyScanStrictPanic
    \/ PrintFinalSummary

SpecClient == InitClient /\ [][NextClient]_vars

-----------------------------------------------------------------------------
(* FetchRepositoryPermissions: what the provider can answer *)

\* GetLogin() and GetSlug() give "" for a user or team that carries no login or slug
Logins == {S_ann, S_bob, Nil}
TeamSlugs == {S_dev, S_ops, Nil}
Roles == {S_admin, S_read}

\* one collaborator of ListCollaborators with the answer GetPermissionLevel
\* gives for them: an error, or a permission
\* the permission the provider holds for a login
RoleAt(l) == IF l = S_ann THEN S_admin ELSE S_read

CollaboratorAnswers ==
    {[login |-> l, levelErr |-> FALSE, role |-> RoleAt(l)] : l \in Logins}
    \cup {[login |-> l, levelErr |-> TRUE, role |-> Nil] : l \in Logins}

\* ListCollaborators lists a user once
CollaboratorLists ==
    {c \in UNION {[1..n -> CollaboratorAnswers] : n \in 0..MaxCollaborators} :
        \A i, j \in 1..Len(c) : c[i].login = c[j].login => i = j}

\* one team of ListTeams with the answer ListTeamMembersBySlug gives for it:
\* an error, or its members
\* the member listings a team can have: any set of the named logins
MemberSets == SUBSET (Logins \ {Nil})

TeamAnswers ==
    {[slug |-> t, membersErr |-> FALSE, members |-> m] : t \in TeamSlugs, m \in MemberSets}
    \cup {[slug |-> t, membersErr |-> TRUE, members |-> {}] : t \in TeamSlugs}

\* ListTeams lists a team once
TeamLists ==
    {t \in UNION {[1..n -> TeamAnswers] : n \in 0..MaxTeams} :
        \A i, j \in 1..Len(t) : t[i].slug = t[j].slug => i = j}

\* the answers to one FetchRepositoryPermissions call; a failed listing carries no list
AccessAnswers ==
    {[collabErr |-> TRUE, collaborators |-> <<>>, teamsErr |-> FALSE, teams |-> <<>>]}
    \cup {[collabErr |-> FALSE, collaborators |-> c, teamsErr |-> TRUE, teams |-> <<>>] :
            c \in CollaboratorLists}
    \cup {[collabErr |-> FALSE, collaborators |-> c, teamsErr |-> FALSE, teams |-> t] :
            c \in CollaboratorLists, t \in TeamLists}

-----------------------------------------------------------------------------
(* FetchRepositoryPermissions *)

\* teamMembers := make(map[string]string)
NoTeamMembers == [l \in {} |-> Nil]

\* PutMembers keeping the team a login already has: later teams do not overwrite
PutMembers_KeepFirst(teamMembers, members, teamSlug) ==
    [l \in (DOMAIN teamMembers) \cup members |->
        IF l \in DOMAIN teamMembers THEN teamMembers[l] ELSE teamSlug]

\* for _, member := range members { teamMembers[member.GetLogin()] = teamSlug }
PutMembers(teamMembers, members, teamSlug) ==
    [l \in (DOMAIN teamMembers) \cup members |->
        IF l \in members THEN teamSlug ELSE teamMembers[l]]

\* MapTeamMembers leaving the loop (break) at the first team whose members cannot be fetched
RECURSIVE MapTeamMembers_StopAtError(_, _)
MapTeamMembers_StopAtError(teamMembers, teams) ==
    IF teams = <<>> THEN teamMembers
    ELSE IF Head(teams).membersErr
    THEN teamMembers
    ELSE MapTeamMembers_StopAtError(
             PutMembers(teamMembers, Head(teams).members, Head(teams).slug), Tail(teams))

\* for _, team := range teams: a team whose members cannot be fetched is skipped
RECURSIVE MapTeamMembers(_, _)
MapTeamMembers(teamMembers, teams) ==
    IF teams = <<>> THEN teamMembers
    ELSE IF Head(teams).membersErr
    THEN MapTeamMembers(teamMembers, Tail(teams))
    ELSE MapTeamMembers(PutMembers(teamMembers, Head(teams).members, Head(teams).slug),
                        Tail(teams))

\* SourceOf ignoring the team map: every collaborator is a direct user
SourceOf_AlwaysUser(login, teamMembers) == S_user

\* source := "user"; if team, exists := teamMembers[login]; exists { source = "team:" + team }
SourceOf(login, teamMembers) ==
    IF login \in DOMAIN teamMembers THEN S_teamPrefix \o teamMembers[login] ELSE S_user

\* for _, collab := range collaborators: a failed permission lookup skips the collaborator
RECURSIVE CollectPermissions(_, _, _)
CollectPermissions(perms, collaborators, teamMembers) ==
    IF collaborators = <<>> THEN perms
    ELSE LET collab == Head(collaborators)
         IN  IF collab.levelErr
             THEN CollectPermissions(perms, Tail(collaborators), teamMembers)
             ELSE CollectPermissions(
                      Append(perms, [Username |-> collab.login,
                                     Role |-> collab.role,
                                     Source |-> SourceOf(collab.login, teamMembers)]),
                      Tail(collaborators), teamMembers)

\* the nil slice of a failed collaborator listing is the empty list
FetchRepositoryPermissions(a) ==
    IF a.collabErr THEN <<>>
    ELSE CollectPermissions(<<>>, a.collaborators, MapTeamMembers(NoTeamMembers, a.teams))

InitFetch ==
    /\ access \in AccessAnswers
    /\ permissions = <<>>
    /\ fetchPc = "call"
    /\ ResolverIdle
    /\ ClientIdle
    /\ ScanIdle
    /\ ProcessIdle

\* permissions := FetchRepositoryPermissions(ctx, repoDetails, org)
FetchPermissions ==
    /\ fetchPc = "call"
    /\ permissions' = FetchRepositoryPermissions(access)
    /\ fetchPc' = "done"
    /\ UNCHANGED <<access, resolverVars, clientVars, scanVars, processVars>>

NextFetch == FetchPermissions

SpecFetch == InitFetch /\ [][NextFetch]_vars

-----------------------------------------------------------------------------
(* ScanOrganization: what the provider and the oracle can answer per repository *)

RepoDigits == <<"1", "2", "3", "4", "5", "6", "7", "8", "9">>

\* the name of the organization's i-th repository
RepoName(i) == <<"r", RepoDigits[i]>>

NoAccess == [collabErr |-> FALSE, collaborators |-> <<>>, teamsErr |-> FALSE, teams |-> <<>>]

\* the answers to scanRepository's lookups for one repository: Repositories.Get
\* fails; or it succeeds and the collaborator listing fails, there are no
\* collaborators, one direct collaborator, one collaborator through a team, or
\* one collaborator whose permission lookup fails
RepoAnswers ==
    {[getErr |-> TRUE, private |-> FALSE, access |-> NoAccess],
     [getErr |-> FALSE, private |-> TRUE,
      access |-> [NoAccess EXCEPT !.collabErr = TRUE]],
     [getErr |-> FALSE, private |-> FALSE, access |-> NoAccess],
     [getErr |-> FALSE, private |-> TRUE,
      access |-> [NoAccess EXCEPT
          !.collaborators = <<[login |-> S_ann, levelErr |-> FALSE, role |-> S_admin]>>]],
     [getErr |-> FALSE, private |-> TRUE,
      access |-> [NoAccess EXCEPT
          !.collaborators = <<[login |-> S_ann, levelErr |-> FALSE, role |-> S_admin]>>,
          !.teams = <<[slug |-> S_dev, membersErr |-> FALSE, members |-> {S_ann}]>>]],
     [getErr |-> FALSE, private |-> FALSE,
      access |-> [NoAccess EXCEPT
          !.collaborators = <<[login |-> S_bob, levelErr |-> TRUE, role |-> Nil]>>]]}

\* the oracle's outcomes for one repository under a policy that compiles:
\* allow, deny next to allow, no result, a result that is not a map, an
\* evaluation error
ScanOutcomes ==
    {[prepErr |-> Nil, evalErr |-> Nil,
      rs |-> <<[Expressions |-> <<GoMap([k \in {"allow"} |-> GoBool(TRUE)])>>]>>],
     [prepErr |-> Nil, evalErr |-> Nil,
      rs |-> <<[Expressions |-> <<GoMap([k \in {"deny", "allow"} |-> GoBool(TRUE)])>>]>>],
     [prepErr |-> Nil, evalErr |-> Nil, rs |-> <<>>],
     [prepErr |-> Nil, evalErr |-> Nil, rs |-> <<[Expressions |-> <<GoBool(TRUE)>>]>>],
     [prepErr |-> Nil, evalErr |-> S_NetworkTimeout, rs |-> <<>>]}

\* a policy that does not compile fails PrepareForEval for every repository
OutcomesUnder(compileErr) ==
    IF compileErr # Nil
    THEN {[prepErr |-> compileErr, evalErr |-> Nil, rs |-> <<>>]}
    ELSE ScanOutcomes

-----------------------------------------------------------------------------
(* scanRepository, NormalizeRepoData and the labelling of ScanOrganization *)

\* RepositoryInfo{}
EmptyRepositoryInfo ==
    [Name |-> Nil, Owner |-> Nil, Private |-> FALSE, Permissions |-> <<>>, ScanResult |-> Nil]

\* the fields copied from the repository (FullName, Visibility, Description,
\* RepoURL, DefaultBranch and LastUpdated are copied like Name)
NormalizeRepoData(repo, perms) ==
    [Name |-> repo.Name, Owner |-> repo.Owner, Private |-> repo.Private,
     Permissions |-> perms, ScanResult |-> Nil]

\* scanRepository returning RepositoryInfo{} when the collaborator listing fails
scanRepository_SkipOnFetchError(name, answer) ==
    IF answer.getErr \/ answer.access.collabErr THEN EmptyRepositoryInfo
    ELSE NormalizeRepoData([Name |-> name, Owner |-> S_Org, Private |-> answer.private],
                           FetchRepositoryPermissions(answer.access))

scanRepository(name, answer) ==
    IF answer.getErr THEN EmptyRepositoryInfo
    ELSE NormalizeRepoData([Name |-> name, Owner |-> S_Org, Private |-> answer.private],
                           FetchRepositoryPermissions(answer.access))

\* ScanResultOf labelling every evaluation error "Failure"
ScanResultOf_ErrorIsFailure(v) ==
    IF v.err = Nil /\ v.success THEN S_Success ELSE S_Failure

\* ScanResultOf writing no label when the evaluation returned an error
ScanResultOf_UnlabelledError(v) ==
    IF v.err # Nil THEN Nil
    ELSE IF v.success THEN S_Success
    ELSE S_Failure

\* the label ScanOrganization writes for evaluatePolicy's (success, err)
ScanResultOf(v) ==
    IF v.err # Nil
    THEN IF Contains(v.err, S_rego_parse_error) THEN S_RegoParsingError ELSE v.err
    ELSE IF v.success THEN S_Success
    ELSE S_Failure

\* ScanRecord remembering an earlier evaluation: from the second repository on
\* the label is "Failure" whatever the oracle returned
ScanRecord_Remembering(name, input) ==
    [scanRepository(name, input.answer) EXCEPT
        !.ScanResult = IF name = RepoName(1)
                       THEN ScanResultOf(evaluatePolicy(input.outcome))
                       ELSE S_Failure]

\* one iteration of the loop over allRepos: the record it appends
ScanRecord(name, input) ==
    [scanRepository(name, input.answer) EXCEPT
        !.ScanResult = ScanResultOf(evaluatePolicy(input.outcome))]

-----------------------------------------------------------------------------
(* ScanOrganization *)

InitScan ==
    /\ scanPc = "list"
    /\ policyErr \in {Nil} \cup PrepareErrors
    /\ orgSize \in 0..MaxRepos
    /\ optPage = 0
    /\ allRepos = <<>>
    /\ scanInputs = <<>>
    /\ scannedRepos = <<>>
    /\ ResolverIdle
    /\ ClientIdle
    /\ FetchIdle
    /\ ProcessIdle

\* the page ListByOrg is asked for: opt.Page, 0 meaning the first
CurrentPage == IF optPage = 0 THEN 1 ELSE optPage

\* ListByOrg with the loop left after the first page, whatever NextPage says
ListByOrg_FirstPageOnly ==
    /\ scanPc = "list"
    /\ \E count \in 0..(orgSize - Len(allRepos)) :
        /\ count = 0 => Len(allRepos) = orgSize
        /\ allRepos' = allRepos \o [i \in 1..count |-> RepoName(Len(allRepos) + i)]
        /\ scanPc' = "scan"
        /\ optPage' = optPage
    /\ UNCHANGED <<policyErr, orgSize, scanInputs, scannedRepos,
                   resolverVars, clientVars, fetchVars, processVars>>

\* a page of ListByOrg: the next count repositories are appended; NextPage is 0
\* on the last page and the loop ends, otherwise it becomes opt.Page
ListByOrg ==
    /\ scanPc = "list"
    /\ \E count \in 0..(orgSize - Len(allRepos)) :
        /\ count = 0 => Len(allRepos) = orgSize
        /\ allRepos' = allRepos \o [i \in 1..count |-> RepoName(Len(allRepos) + i)]
        /\ IF Len(allRepos) + count = orgSize
           THEN scanPc' = "scan" /\ optPage' = optPage
           ELSE scanPc' = "list" /\ optPage' = CurrentPage + 1
    /\ UNCHANGED <<policyErr, orgSize, scanInputs, scannedRepos,
                   resolverVars, clientVars, fetchVars, processVars>>

\* ListByOrg returns an error: log.Fatalf ends the process
ListByOrgFails ==
    /\ scanPc = "list"
    /\ scanPc' = "fatal"
    /\ UNCHANGED <<policyErr, orgSize, optPage, allRepos, scanInputs, scannedRepos,
                   resolverVars, clientVars, fetchVars, processVars>>

\* one iteration of the loop over allRepos: scanRepository, evaluatePolicy,
\* the label, the append
ScanNextRepository ==
    /\ scanPc = "scan"
    /\ Len(scannedRepos) < Len(allRepos)
    /\ \E answer \in RepoAnswers, outcome \in OutcomesUnder(policyErr) :
        LET input == [answer |-> answer, outcome |-> outcome]
        IN  /\ scanInputs' = Append(scanInputs, input)
            /\ scannedRepos' =
                  Append(scannedRepos, ScanRecord(allRepos[Len(scannedRepos) + 1], input))
    /\ UNCHANGED <<scanPc, policyErr, orgSize, optPage, allRepos,
                   resolverVars, clientVars, fetchVars, processVars>>

\* return scannedRepos
ReturnScannedRepos ==
    /\ scanPc = "scan"
    /\ Len(scannedRepos) = Len(allRepos)
    /\ scanPc' = "done"
    /\ UNCHANGED <<policyErr, orgSize, optPage, allRepos, scanInputs, scannedRepos,
                   resolverVars, clientVars, fetchVars, processVars>>

NextScan ==
    \/ ListByOrg
    \/ ListByOrgFails
    \/ ScanNextRepository
    \/ ReturnScannedRepos

SpecScan == InitScan /\ [][NextScan]_vars

-----------------------------------------------------------------------------
(* Server.ScanRepositories and GetOrgNameFromEnv of grpc_server.go *)

\* what os.Getenv("ORG_NAME") can return: "" when the variable is not set
EnvOrgNames == {Nil, S_Org}

\* GetOrgNameFromEnv: log.Fatal ends the process when ORG_NAME is empty,
\* otherwise the name is returned
GetOrgNameFromEnv(env) == [fatal |-> env = Nil, org |-> env]

\* ScanOrganizationForGRPC: every record and every permission entry copied
\* field by field into the pb structs, in order
ScanOrganizationForGRPC(repos) ==
    [i \in 1..Len(repos) |->
        [Name |-> repos[i].Name, Owner |-> repos[i].Owner, Private |-> repos[i].Private,
         Permissions |-> [k \in 1..Len(repos[i].Permissions) |->
                             [Username |-> repos[i].Permissions[k].Username,
                              Role |-> repos[i].Permissions[k].Role,
                              Source |-> repos[i].Permissions[k].Source]],
         ScanResult |-> repos[i].ScanResult]]

\* a request has arrived; req.Policy compiles or not, the organization has
\* orgSize repositories
InitHandler ==
    /\ orgName \in EnvOrgNames
    /\ rpcPc = "recv"
    /\ rpcRes = NoResponse
    /\ scanPc = "idle"
    /\ policyErr \in {Nil} \cup PrepareErrors
    /\ orgSize \in 0..MaxRepos
    /\ optPage = 0
    /\ allRepos = <<>>
    /\ scanInputs = <<>>
    /\ scannedRepos = <<>>
    /\ ResolverIdle
    /\ ClientIdle
    /\ FetchIdle
    /\ ClientInitIdle

\* ScanRepositories up to the call of ScanOrganizationForGRPC
ScanRepositories ==
    /\ rpcPc = "recv"
    /\ LET r == GetOrgNameFromEnv(orgName)
       IN  IF r.fatal
           THEN /\ rpcPc' = "exit"
                /\ UNCHANGED <<rpcRes, scanPc>>
           ELSE IF r.org = Nil
                THEN /\ rpcPc' = "replied"
                     /\ rpcRes' = [Error |-> S_OrgNameMissing, Repositories |-> <<>>]
                     /\ UNCHANGED scanPc
                ELSE /\ rpcPc' = "scan"
                     /\ scanPc' = "list"
                     /\ UNCHANGED rpcRes
    /\ UNCHANGED <<orgName, policyErr, orgSize, optPage, allRepos, scanInputs,
                   scannedRepos, resolverVars, clientVars, fetchVars, initVars>>

\* ScanOrganizationForGRPC has returned: the response carries the repositories
ReplyRepositories ==
    /\ rpcPc = "scan"
    /\ scanPc = "done"
    /\ rpcPc' = "replied"
    /\ rpcRes' = [Error |-> Nil, Repositories |-> ScanOrganizationForGRPC(scannedRepos)]
    /\ UNCHANGED <<orgName, scanVars, resolverVars, clientVars, fetchVars, initVars>>

NextHandler ==
    \/ ScanRepositories
    \/ ReplyRepositories
    \/ ListByOrg
    \/ ListByOrgFails
    \/ ScanNextRepository
    \/ ReturnScannedRepos

SpecHandler == InitHandler /\ [][NextHandler]_vars

-----------------------------------------------------------------------------
(* getGitHubClient of github_client.go and InitGitHubClient, called by
   concurrent requests *)

\* what os.Getenv("GITHUB_TOKEN") can return: "" when the variable is not set
EnvTokens == {Nil, S_Token}

\* getGitHubClient constructing a client on every call, with no sync.Once
getGitHubClient_NoOnce(o, tok) ==
    IF tok = Nil
    THEN [fatal |-> TRUE, once |-> o, client |-> 0]
    ELSE [fatal |-> FALSE,
          once |-> [done |-> TRUE, client |-> o.built + 1, built |-> o.built + 1],
          client |-> o.built + 1]

\* getGitHubClient: the function of gitHubClientOnce.Do runs on the first call
\* only (log.Fatal without a token, otherwise a new client is stored in
\* gitHubClient); every call returns gitHubClient. Instances are numbered in
\* the order of their construction.
getGitHubClient(o, tok) ==
    IF o.done
    THEN [fatal |-> FALSE, once |-> o, client |-> o.client]
    ELSE IF tok = Nil
         THEN [fatal |-> TRUE, once |-> o, client |-> 0]
         ELSE [fatal |-> FALSE,
               once |-> [done |-> TRUE, client |-> o.built + 1, built |-> o.built + 1],
               client |-> o.built + 1]

\* an unsynchronised read of GitHubClient by caller c: the value c saw last
\* (its own store included) or the value stored last by anyone
ReadsOfGitHubClient(c) == {view[c], GitHubClient}

\* NumCallers scans each about to obtain the client, through InitGitHubClient
\* or through getGitHubClient itself
InitGitHub ==
    /\ token \in EnvTokens
    /\ once = OnceNew
    /\ GitHubClient = 0
    /\ view = [c \in Callers |-> 0]
    /\ callerPc = [c \in Callers |-> "start"]
    /\ got = [c \in Callers |-> 0]
    /\ used = [c \in Callers |-> 0]
    /\ ResolverIdle
    /\ ClientIdle
    /\ FetchIdle
    /\ ScanIdle
    /\ HandlerIdle

\* InitGitHubClient: if GitHubClient == nil
InitGitHubClient_Check(c) ==
    /\ callerPc[c] = "start"
    /\ \E v \in ReadsOfGitHubClient(c) :
        /\ view' = [view EXCEPT ![c] = v]
        /\ callerPc' = [callerPc EXCEPT ![c] = IF v = 0 THEN "get" ELSE "use"]
    /\ UNCHANGED <<token, once, GitHubClient, got, used,
                   resolverVars, clientVars, fetchVars, scanVars, handlerVars>>

\* InitGitHubClient: the call getGitHubClient()
InitGitHubClient_Get(c) ==
    /\ callerPc[c] = "get"
    /\ LET r == getGitHubClient(once, token)
       IN  IF r.fatal
           THEN /\ callerPc' = [k \in Callers |-> "exit"]
                /\ UNCHANGED <<once, got>>
           ELSE /\ once' = r.once
                /\ got' = [got EXCEPT ![c] = r.client]
                /\ callerPc' = [callerPc EXCEPT ![c] = "store"]
    /\ UNCHANGED <<token, GitHubClient, view, used,
                   resolverVars, clientVars, fetchVars, scanVars, handlerVars>>

\* InitGitHubClient: GitHubClient = (the value returned)
InitGitHubClient_Store(c) ==
    /\ callerPc[c] = "store"
    /\ GitHubClient' = got[c]
    /\ view' = [view EXCEPT ![c] = got[c]]
    /\ callerPc' = [callerPc EXCEPT ![c] = "use"]
    /\ UNCHANGED <<token, once, got, used,
                   resolverVars, clientVars, fetchVars, scanVars, handlerVars>>

\* client := getGitHubClient(), the scan that keeps the client in a local
getGitHubClient_Direct(c) ==
    /\ callerPc[c] = "start"
    /\ LET r == getGitHubClient(once, token)
       IN  IF r.fatal
           THEN /\ callerPc' = [k \in Callers |-> "exit"]
                /\ UNCHANGED <<once, got>>
           ELSE /\ once' = r.once
                /\ got' = [got EXCEPT ![c] = r.client]
                /\ callerPc' = [callerPc EXCEPT ![c] = "local"]
    /\ UNCHANGED <<token, GitHubClient, view, used,
                   resolverVars, clientVars, fetchVars, scanVars, handlerVars>>

\* client.Repositories.ListByOrg(...) through the local
UseLocalClient(c) ==
    /\ callerPc[c] = "local"
    /\ used' = [used EXCEPT ![c] = got[c]]
    /\ callerPc' = [callerPc EXCEPT ![c] = IF got[c] = 0 THEN "panic" ELSE "done"]
    /\ UNCHANGED <<token, once, GitHubClient, view, got,
                   resolverVars, clientVars, fetchVars, scanVars, handlerVars>>

\* GitHubClient.Repositories.ListByOrg(...): the caller reads GitHubClient and
\* calls the provider through it; a nil client is a nil dereference
UseGitHubClient(c) ==
    /\ callerPc[c] = "use"
    /\ \E v \in ReadsOfGitHubClient(c) :
        /\ view' = [view EXCEPT ![c] = v]
        /\ used' = [used EXCEPT ![c] = v]
        /\ callerPc' = [callerPc EXCEPT ![c] = IF v = 0 THEN "panic" ELSE "done"]
    /\ UNCHANGED <<token, once, GitHubClient, got,
                   resolverVars, clientVars, fetchVars, scanVars, handlerVars>>

NextGitHub ==
    \E c \in Callers :
        \/ InitGitHubClient_Check(c)
        \/ InitGitHubClient_Get(c)
        \/ InitGitHubClient_Store(c)
        \/ UseGitHubClient(c)
        \/ getGitHubClient_Direct(c)
        \/ UseLocalClient(c)

SpecGitHub == InitGitHub /\ [][NextGitHub]_vars

Init == InitResolver \/ InitClient \/ InitFetch \/ InitScan \/ InitHandler \/ InitGitHub
Next == NextResolver \/ NextClient \/ NextFetch \/ NextScan \/ NextHandler \/ NextGitHub
Spec == Init /\ [][Next]_vars

-----------------------------------------------------------------------------
(* The verdict resolver's claims, under SpecResolver *)

Evaluated == evalPc = "done"

\* the oracle succeeded and its first expression is a map of signals
WellFormed ==
    /\ oracleOut.prepErr = Nil
    /\ oracleOut.evalErr = Nil
    /\ Len(oracleOut.rs) > 0
    /\ Len(oracleOut.rs[1].Expressions) > 0
    /\ oracleOut.rs[1].Expressions[1].kind = "map"

Signals == oracleOut.rs[1].Expressions[1].m

SignalTrue(name) == name \in DOMAIN Signals /\ Signals[name] = GoBool(TRUE)
SignalAbsentOrFalse(name) == name \notin DOMAIN Signals \/ Signals[name] = GoBool(FALSE)

Denied == verdict = [success |-> FALSE, err |-> Nil]
Allowed == verdict = [success |-> TRUE, err |-> Nil]

\* C1: whenever the signal set is well formed and "deny" is present and true,
\* evaluatePolicy returns Denied (false, nil), whatever "allow" is.
C1_DenyTakesPrecedence ==
    (Evaluated /\ WellFormed /\ SignalTrue("deny")) => Denied

C1_Witness ==
    Evaluated /\ WellFormed /\ SignalTrue("deny") /\ SignalTrue("allow") /\ Denied

\* C2: whenever the signal set is well formed, "deny" is absent or false and
\* "allow" is present and true, evaluatePolicy returns Allowed (true, nil).
C2_AllowWithoutDeny ==
    (Evaluated /\ WellFormed /\ SignalAbsentOrFalse("deny") /\ SignalTrue("allow")) => Allowed

C2_Witness ==
    /\ Evaluated /\ WellFormed /\ Allowed
    /\ "deny" \in DOMAIN Signals /\ Signals["deny"] = GoBool(FALSE)
    /\ SignalTrue("allow")

\* C3: whenever the signal set is well formed and neither "deny" nor "allow"
\* is true (each absent or false), evaluatePolicy returns Denied with no error.
C3_DefaultDeny ==
    (Evaluated /\ WellFormed /\ SignalAbsentOrFalse("deny") /\ SignalAbsentOrFalse("allow"))
        => Denied

C3_Witness ==
    /\ Evaluated /\ WellFormed /\ Denied
    /\ "deny" \notin DOMAIN Signals
    /\ "allow" \in DOMAIN Signals /\ Signals["allow"] = GoBool(FALSE)

\* the oracle succeeded with zero results, or with zero expressions in its first result
EmptyResult ==
    /\ oracleOut.prepErr = Nil
    /\ oracleOut.evalErr = Nil
    /\ (Len(oracleOut.rs) = 0 \/ Len(oracleOut.rs[1].Expressions) = 0)

\* C4 as stated: an oracle result with zero results or zero expressions gives
\* an evaluation error, never Denied and never Allowed.
C4_EmptyResultIsError ==
    (Evaluated /\ EmptyResult) => (verdict.err # Nil /\ ~Denied /\ ~Allowed)

\* C4 as amended: an oracle result with zero results or zero expressions gives
\* Denied (false, nil): no error is returned and it is never Allowed.
C4_EmptyResultIsDenied ==
    (Evaluated /\ EmptyResult) => Denied

C4_Witness ==
    /\ Evaluated /\ Denied
    /\ oracleOut.prepErr = Nil /\ oracleOut.evalErr = Nil
    /\ Len(oracleOut.rs) > 0 /\ Len(oracleOut.rs[1].Expressions) = 0

\* the oracle succeeded and its first expression is not a map
NonMapResult ==
    /\ oracleOut.prepErr = Nil
    /\ oracleOut.evalErr = Nil
    /\ Len(oracleOut.rs) > 0
    /\ Len(oracleOut.rs[1].Expressions) > 0
    /\ oracleOut.rs[1].Expressions[1].kind # "map"

\* C5: when the first expression of the oracle result is not a map, the outcome
\* is the error "invalid policy evaluation result format", never Denied or Allowed.
C5_NonMapIsFormatError ==
    (Evaluated /\ NonMapResult) =>
        (verdict.err = S_InvalidFormat /\ ~verdict.success /\ ~Denied /\ ~Allowed)

C5_Witness ==
    /\ Evaluated /\ NonMapResult
    /\ oracleOut.rs[1].Expressions[1] = GoBool(TRUE)
    /\ verdict.err = S_InvalidFormat

-----------------------------------------------------------------------------
(* The scan aggregator's claims, under SpecClient *)

\* the latest call's summary is appended: lastRes is the reply it was built from
Summarized == Len(summaries) > 0 /\ clientPc \in {"scan", "print", "done"}

LastSummary == summaries[Len(summaries)]
LastPolicy == policies[Len(summaries)]
LastRepos == lastRes.res.Repositories
LastLabels == [i \in 1..Len(LastRepos) |-> LastRepos[i].ScanResult]

\* the call succeeded and the response carries no top-level error
NoPolicyLevelError == lastRes.err = Nil /\ ~lastRes.res.isNil /\ lastRes.res.Error = Nil

\* a repository's outcome: Success, Failure, or an error (any other label)
IsErrorOutcome(label) == label # S_Success /\ label # S_Failure

FailureRepos == {i \in 1..Len(LastLabels) : LastLabels[i] = S_Failure}
SuccessRepos == {i \in 1..Len(LastLabels) : LastLabels[i] = S_Success}
ErrorRepos == {i \in 1..Len(LastLabels) : IsErrorOutcome(LastLabels[i])}

\* the run is over and printed: the last report line is the latest reply's
Printed == clientPc = "done" /\ Len(report) = Len(summaries) /\ Len(report) > 0
LastLine == report[Len(report)]

\* C6: whenever no policy-level error occurred and some repository's outcome is
\* an error, the summary is Error and its message is that repository's error
\* message, whatever the other repositories are.
C6_RepoErrorPropagates ==
    (Summarized /\ NoPolicyLevelError /\ ErrorRepos # {}) =>
        /\ LastSummary.Error
        /\ \E i \in ErrorRepos : LastSummary.ErrorMessage = LastLabels[i]

\* C7: whenever there is no policy-level error and no repository error and some
\* repository's outcome is Failure, the summary is Failure with a count equal to
\* the number of Failure repositories (the strict variant: its Failure flag),
\* and it is printed as FAILURE, also when other repositories succeeded.
C7_FailureCount ==
    (Summarized /\ NoPolicyLevelError /\ ErrorRepos = {} /\ FailureRepos # {}) =>
        /\ ~LastSummary.Error
        /\ variant = "count" => LastSummary.FailureCount = Cardinality(FailureRepos)
        /\ variant = "strict" => LastSummary.Failure
        /\ Printed => LastLine.kind = "FAILURE"
        /\ (Printed /\ variant = "count") => LastLine.count = Cardinality(FailureRepos)

C7_Witness ==
    /\ Printed /\ variant = "count" /\ NoPolicyLevelError
    /\ LastLabels = <<S_Failure, S_Failure>>
    /\ LastLine = [kind |-> "FAILURE", message |-> Nil, count |-> 2]

\* C8: a policy is reported SUCCESS only if no policy-level error occurred, some
\* repository's outcome is Success and no repository's outcome is a Failure or
\* an error.
C8_FailClosedSuccess ==
    (Printed /\ LastLine.kind = "SUCCESS") =>
        /\ NoPolicyLevelError
        /\ SuccessRepos # {}
        /\ FailureRepos = {}
        /\ ErrorRepos = {}

\* C9: an empty repository list with no policy-level error is printed as
\* ERROR (NO MATCHING CONDITION), never as SUCCESS, and is counted in the
\* error total.
C9_EmptyIsNoMatch ==
    (Printed /\ NoPolicyLevelError /\ LastRepos = <<>>) =>
        /\ LastLine.kind = "ERROR (NO MATCHING CONDITION)"
        /\ totals.error =
             Cardinality({i \in 1..Len(report) :
                 report[i].kind \in {"ERROR", "ERROR (NO MATCHING CONDITION)"}})
        /\ totals.error >= 1
        /\ totals.success + totals.failure + totals.error = Len(report)

C9_Witness ==
    /\ Printed /\ NoPolicyLevelError /\ LastRepos = <<>>
    /\ LastLine.kind = "ERROR (NO MATCHING CONDITION)"
    /\ totals.error = 1
    /\ totals.success = 1

\* the permutations of 1..n, for every length a repository list can have
PermTable ==
    [n \in 0..MaxRepos |-> {f \in [1..n -> 1..n] : \A i, j \in 1..n : f[i] = f[j] => i = j}]

Perms(n) == PermTable[n]

\* the latest reply with its repositories in the order f
PermutedReply(f) ==
    [lastRes EXCEPT !.res.Repositories = [i \in 1..Len(LastRepos) |-> LastRepos[f[i]]]]

\* C10 as stated: for every permutation of the repositories the summary is the
\* same: same terminal state, same failure count, same error message.
C10_OrderIndependent ==
    Summarized =>
        \A f \in Perms(Len(LastRepos)) :
            /\ variant = "count" => ScanSummary(LastPolicy, PermutedReply(f)) = LastSummary
            /\ variant = "strict" => StrictScanSummary(LastPolicy, PermutedReply(f)) = LastSummary

\* C10 as amended: for every permutation of the repositories the counting
\* variant's summary is the same, and the strict variant's summary has the same
\* policy, the same Error, Failure and Success flags and the same printed
\* result; its error message is not compared.
C10_OrderIndependentState ==
    Summarized =>
        \A f \in Perms(Len(LastRepos)) :
            /\ variant = "count" => ScanSummary(LastPolicy, PermutedReply(f)) = LastSummary
            /\ variant = "strict" =>
                LET s == StrictScanSummary(LastPolicy, PermutedReply(f))
                IN  /\ s.Policy = LastSummary.Policy
                    /\ s.Error = LastSummary.Error
                    /\ s.Failure = LastSummary.Failure
                    /\ s.Success = LastSummary.Success
                    /\ PrintStrict(s).kind = PrintStrict(LastSummary).kind

C10_Witness ==
    /\ Summarized /\ variant = "strict" /\ NoPolicyLevelError
    /\ LastLabels = <<S_RegoParsingError, S_ScanErrorTimeout>>
    /\ LastSummary.Error
    /\ LastSummary.ErrorMessage = S_ScanResultSep \o S_RegoParsingError

-----------------------------------------------------------------------------
(* The summary record and the multi-policy runner, under SpecClient *)

\* the failure mark of a summary: a non-zero count, or the strict variant's flag
HasFailure(s) == IF variant = "count" THEN s.FailureCount > 0 ELSE s.Failure

\* how many of the three marks (error, failure, success) a summary carries
MarksSet(s) ==
    (IF s.Error THEN 1 ELSE 0) + (IF HasFailure(s) THEN 1 ELSE 0)
        + (IF s.Success THEN 1 ELSE 0)

\* C11 as stated: on every summary record built by invokePolicyScan at most one
\* of the error flag, a non-zero failure count (failure flag) and the success
\* flag is set.
C11_MarksExclusive ==
    \A i \in 1..Len(summaries) : MarksSet(summaries[i]) <= 1

\* C11 as amended: on every summary record the error flag excludes the failure
\* mark and the success flag; the failure mark and the success flag may both be
\* set, and the printed result of such a record is the one state FAILURE.
C11_ErrorExcludesOthers ==
    /\ \A i \in 1..Len(summaries) :
          summaries[i].Error => (~HasFailure(summaries[i]) /\ ~summaries[i].Success)
    /\ clientPc = "done" =>
          \A i \in 1..Len(report) :
              (HasFailure(summaries[i]) /\ summaries[i].Success) =>
                  report[i].kind = "FAILURE"

C11_Witness ==
    /\ Printed /\ NoPolicyLevelError
    /\ LastLabels = <<S_Success, S_Failure>>
    /\ LastSummary.Success /\ HasFailure(LastSummary) /\ ~LastSummary.Error
    /\ LastLine.kind = "FAILURE"

\* the call succeeded and the response carries a non-empty top-level error
TopLevelError == lastRes.err = Nil /\ ~lastRes.res.isNil /\ lastRes.res.Error # Nil

\* the repositories of the latest reply whose label the strict variant takes for an error
MarkedRepos == {i \in 1..Len(LastLabels) : LooksLikeError(LastLabels[i])}

\* C12 as stated: a response with a non-empty top-level error gives an Error
\* summary whose message is exactly that error, whatever the repositories are.
C12_TopLevelErrorExact ==
    (Summarized /\ TopLevelError) =>
        (LastSummary.Error /\ LastSummary.ErrorMessage = lastRes.res.Error)

\* C12 as amended: a response with a non-empty top-level error gives an Error
\* summary, whatever the repositories are, with no failure and no success mark.
\* Its message is exactly that error in the counting variant, and in the strict
\* variant when no repository label contains "error" or "failed"; otherwise the
\* strict variant's message is that error followed by " | Scan Result: " and
\* the first such label.
C12_TopLevelErrorCarried ==
    (Summarized /\ TopLevelError) =>
        /\ LastSummary.Error
        /\ ~HasFailure(LastSummary) /\ ~LastSummary.Success
        /\ (variant = "count" \/ MarkedRepos = {}) =>
              LastSummary.ErrorMessage = lastRes.res.Error
        /\ (variant = "strict" /\ MarkedRepos # {}) =>
              \E i \in MarkedRepos :
                  /\ \A j \in MarkedRepos : i <= j
                  /\ LastSummary.ErrorMessage =
                        lastRes.res.Error \o S_ScanResultSep \o LastLabels[i]

C12_Witness ==
    /\ Summarized /\ variant = "strict" /\ TopLevelError
    /\ LastLabels = <<S_Success, S_ScanErrorTimeout>>
    /\ LastSummary.Error
    /\ LastSummary.ErrorMessage = S_OrgNameMissing \o S_ScanResultSep \o S_ScanErrorTimeout

\* C13: the run is never cut short, the list returned to the printer holds one
\* summary per policy, and the i-th summary carries the i-th policy (trimmed),
\* whatever the replies to the earlier policies were.
C13_OneSummaryPerPolicy ==
    /\ clientPc # "panic"
    /\ clientPc \in {"print", "done"} => Len(summaries) = NumPolicies
    /\ \A i \in 1..Len(summaries) : summaries[i].Policy = TrimSpace(policies[i])

\* the latest call has returned with an error and no response
CallFailed == clientPc # "wait" /\ lastRes.err # Nil /\ lastRes.res.isNil

\* C14: when the call for a policy returns an error and no response, a summary
\* is appended for that policy, it is Error with the call's error message, and
\* the runner goes on to the next policy or to the report.
C14_CallFailureIsError ==
    CallFailed =>
        /\ clientPc \in {"scan", "print", "done"}
        /\ Len(summaries) > 0
        /\ LastSummary.Error
        /\ LastSummary.ErrorMessage = lastRes.err

\* the class printFinalSummary has to give a summary, by precedence
ClassOf(s) ==
    IF s.Error THEN "ERROR"
    ELSE IF HasFailure(s) THEN "FAILURE"
    ELSE IF s.Success THEN "SUCCESS"
    ELSE "ERROR (NO MATCHING CONDITION)"

LinesOfKind(kinds) == {i \in 1..Len(report) : report[i].kind \in kinds}

\* C15: after printFinalSummary every summary has exactly one line, whose class
\* follows the precedence Error > Failure > Success > no match; the success,
\* failure and error totals count the lines of their class, a no-match line
\* counting as an error, and add up to the number of policies.
C15_ReportTotals ==
    clientPc = "done" =>
        /\ Len(report) = Len(summaries)
        /\ Len(report) = NumPolicies
        /\ \A i \in 1..Len(report) : report[i].kind = ClassOf(summaries[i])
        /\ totals.success = Cardinality(LinesOfKind({"SUCCESS"}))
        /\ totals.failure = Cardinality(LinesOfKind({"FAILURE"}))
        /\ totals.error =
              Cardinality(LinesOfKind({"ERROR", "ERROR (NO MATCHING CONDITION)"}))
        /\ totals.success + totals.failure + totals.error = NumPolicies

C15_Witness ==
    /\ clientPc = "done"
    /\ summaries[1].Success /\ HasFailure(summaries[1])
    /\ report[1].kind = "FAILURE"
    /\ report[Len(report)].kind = "ERROR (NO MATCHING CONDITION)"
    /\ totals = [success |-> 0, failure |-> 1, error |-> NumPolicies - 1]

\* C17: whenever no policy-level error occurred and some repository of the
\* reply is labelled "invalid policy evaluation result format", the summary is
\* Error and is printed as ERROR.
C17_FormatErrorSurfaced ==
    (Summarized /\ NoPolicyLevelError
        /\ \E i \in 1..Len(LastLabels) : LastLabels[i] = S_InvalidFormat) =>
        /\ LastSummary.Error
        /\ Printed => LastLine.kind = "ERROR"

\* the labels a reply can carry that contain "error" or "failed" in some letter case
MarkedLabels == {S_RegoParsingError, S_ScanErrorTimeout, S_EvalPrefix \o S_NetworkTimeout}

\* C18: in the strict variant, when some repository's label contains "error" or
\* "failed" in any letter case, the summary is Error, with no failure and no
\* success mark, and is printed as ERROR, whatever the other labels are; a reply
\* with no policy-level error whose labels are all "Success" or "Failure" never
\* gives an Error summary.
C18_StrictMarkerIsError ==
    (Summarized /\ variant = "strict") =>
        /\ (\E i \in 1..Len(LastLabels) : LastLabels[i] \in MarkedLabels) =>
              /\ LastSummary.Error
              /\ ~LastSummary.Failure /\ ~LastSummary.Success
              /\ Printed => LastLine.kind = "ERROR"
        /\ (NoPolicyLevelError
              /\ \A i \in 1..Len(LastLabels) : LastLabels[i] \in {S_Success, S_Failure}) =>
              ~LastSummary.Error

C18_Witness ==
    /\ Printed /\ variant = "strict" /\ NoPolicyLevelError
    /\ LastLabels = <<S_Failure, S_RegoParsingError>>
    /\ LastSummary.Error /\ ~LastSummary.Failure
    /\ LastLine.kind = "ERROR"

-----------------------------------------------------------------------------
(* The organization scan's claims, under SpecScan *)

\* the repositories ScanOrganization has a record for so far
Scanned == 1..Len(scannedRepos)

\* what evaluatePolicy returned for the i-th repository
VerdictOf(i) == evaluatePolicy(scanInputs[i].outcome)

IsAllowed(v) == v = [success |-> TRUE, err |-> Nil]
IsDenied(v) == v = [success |-> FALSE, err |-> Nil]

\* C16 as stated: every record's ScanResult is "Success" exactly when the
\* resolver returned Allowed, "Failure" exactly when it returned Denied, and
\* the resolver's error text when it returned an error.
C16_LabelIsVerdict ==
    \A i \in Scanned :
        /\ scannedRepos[i].ScanResult = S_Success <=> IsAllowed(VerdictOf(i))
        /\ scannedRepos[i].ScanResult = S_Failure <=> IsDenied(VerdictOf(i))
        /\ VerdictOf(i).err # Nil => scannedRepos[i].ScanResult = VerdictOf(i).err

\* C16 as amended: every record's ScanResult is "Success" exactly when the
\* resolver returned Allowed and "Failure" exactly when it returned Denied; when
\* the resolver returned an error it is "Rego Parsing Error" if the error text
\* contains "rego_parse_error" and exactly the error text otherwise.
C16_LabelIsVerdictOrParseError ==
    \A i \in Scanned :
        /\ scannedRepos[i].ScanResult = S_Success <=> IsAllowed(VerdictOf(i))
        /\ scannedRepos[i].ScanResult = S_Failure <=> IsDenied(VerdictOf(i))
        /\ (VerdictOf(i).err # Nil /\ Contains(VerdictOf(i).err, S_rego_parse_error)) =>
              scannedRepos[i].ScanResult = S_RegoParsingError
        /\ (VerdictOf(i).err # Nil /\ ~Contains(VerdictOf(i).err, S_rego_parse_error)) =>
              scannedRepos[i].ScanResult = VerdictOf(i).err

C16_Witness ==
    /\ scanPc = "done" /\ Len(scannedRepos) = MaxRepos
    /\ VerdictOf(1).err = S_PrepPrefix \o S_rego_parse_error
    /\ scannedRepos[1].ScanResult = S_RegoParsingError

\* the repositories whose detail fetch succeeded and whose collaborator listing failed
CollaboratorsFailed ==
    {i \in Scanned : ~scanInputs[i].answer.getErr /\ scanInputs[i].answer.access.collabErr}

\* C20 as stated: a repository whose collaborator listing failed has a record
\* with an empty permission list and its own name, labelled "Success" or
\* "Failure".
C20_CollaboratorFailureLabelled ==
    \A i \in CollaboratorsFailed :
        /\ scannedRepos[i].Permissions = <<>>
        /\ scannedRepos[i].Name = allRepos[i]
        /\ scannedRepos[i].ScanResult \in {S_Success, S_Failure}

\* C20 as amended: a repository whose collaborator listing failed has a record
\* with an empty permission list and its own name and owner; the record is
\* labelled from the policy's evaluation alone: "Success" when it is Allowed,
\* "Failure" when it is Denied, and the evaluation's error label when the
\* evaluation itself returned an error.  At the end there is one record per
\* listed repository, and the record of every other repository is the one its
\* own answers give.
C20_CollaboratorFailureDegrades ==
    /\ \A i \in CollaboratorsFailed :
          /\ scannedRepos[i].Permissions = <<>>
          /\ scannedRepos[i].Name = allRepos[i]
          /\ scannedRepos[i].Owner = S_Org
          /\ IsAllowed(VerdictOf(i)) => scannedRepos[i].ScanResult = S_Success
          /\ IsDenied(VerdictOf(i)) => scannedRepos[i].ScanResult = S_Failure
          /\ VerdictOf(i).err # Nil =>
                scannedRepos[i].ScanResult \in {VerdictOf(i).err, S_RegoParsingError}
    /\ (CollaboratorsFailed # {} /\ scanPc = "done") =>
          /\ Len(scannedRepos) = Len(allRepos)
          /\ \A j \in Scanned \ CollaboratorsFailed :
                scannedRepos[j] = ScanRecord(allRepos[j], scanInputs[j])

C20_Witness ==
    /\ scanPc = "done" /\ Len(scannedRepos) = MaxRepos
    /\ 1 \in CollaboratorsFailed
    /\ scannedRepos[1] =
          [Name |-> RepoName(1), Owner |-> S_Org, Private |-> TRUE,
           Permissions |-> <<>>, ScanResult |-> S_Success]
    /\ Len(scannedRepos[Len(scannedRepos)].Permissions) = 1
    /\ scannedRepos[Len(scannedRepos)].ScanResult = S_Failure

-----------------------------------------------------------------------------
(* The access record builder's claims, under SpecFetch *)

Fetched == fetchPc = "done"

\* the listed teams whose member listing holds the login
TeamsHolding(login) ==
    {t \in 1..Len(access.teams) :
        ~access.teams[t].membersErr /\ login \in access.teams[t].members}

\* the entries of the permission list recorded for the login
EntriesOf(login) == {k \in 1..Len(permissions) : permissions[k].Username = login}

\* C19: after FetchRepositoryPermissions with the collaborators listed, every
\* collaborator whose permission lookup succeeded has exactly one entry, with
\* the role of the lookup, whose source is "team:" followed by the slug of a
\* listed team whose member listing holds the collaborator if there is such a
\* team, and "user" otherwise.
C19_RecordedOnceWithSource ==
    (Fetched /\ ~access.collabErr) =>
        \A i \in 1..Len(access.collaborators) :
            LET collab == access.collaborators[i]
            IN  ~collab.levelErr =>
                  /\ Cardinality(EntriesOf(collab.login)) = 1
                  /\ \A k \in EntriesOf(collab.login) :
                        /\ permissions[k].Role = collab.role
                        /\ TeamsHolding(collab.login) = {} =>
                              permissions[k].Source = S_user
                        /\ TeamsHolding(collab.login) # {} =>
                              \E t \in TeamsHolding(collab.login) :
                                  permissions[k].Source =
                                      S_teamPrefix \o access.teams[t].slug

C19_Witness ==
    /\ Fetched
    /\ access.collaborators =
          <<[login |-> S_ann, levelErr |-> FALSE, role |-> S_admin],
            [login |-> S_bob, levelErr |-> FALSE, role |-> S_read]>>
    /\ access.teams = <<[slug |-> S_dev, membersErr |-> FALSE, members |-> {S_ann}]>>
    /\ permissions =
          <<[Username |-> S_ann, Role |-> S_admin, Source |-> S_teamPrefix \o S_dev],
            [Username |-> S_bob, Role |-> S_read, Source |-> S_user]>>

\* the team listing failed, or the member listing of some listed team failed
TeamFetchFailed ==
    access.teamsErr \/ \E t \in 1..Len(access.teams) : access.teams[t].membersErr

\* the collaborators whose permission lookup succeeded
LookedUp == {i \in 1..Len(access.collaborators) : ~access.collaborators[i].levelErr}

\* C21: when the team listing or some team's member listing fails,
\* FetchRepositoryPermissions still returns one entry per collaborator whose
\* permission lookup succeeded; an entry whose user is in no team whose members
\* were fetched has source "user" (every entry, when the team listing failed),
\* and an entry whose user is in such a team still has that team's source.
C21_TeamFailureFallsBack ==
    (Fetched /\ ~access.collabErr /\ TeamFetchFailed) =>
        /\ Len(permissions) = Cardinality(LookedUp)
        /\ \A k \in 1..Len(permissions) :
              /\ TeamsHolding(permissions[k].Username) = {} =>
                    permissions[k].Source = S_user
              /\ TeamsHolding(permissions[k].Username) # {} =>
                    \E t \in TeamsHolding(permissions[k].Username) :
                        permissions[k].Source = S_teamPrefix \o access.teams[t].slug
              /\ access.teamsErr => permissions[k].Source = S_user

C21_Witness ==
    /\ Fetched
    /\ access.teams = <<[slug |-> S_dev, membersErr |-> TRUE, members |-> {}],
                        [slug |-> S_ops, membersErr |-> FALSE, members |-> {S_bob}]>>
    /\ permissions =
          <<[Username |-> S_ann, Role |-> S_admin, Source |-> S_user],
            [Username |-> S_bob, Role |-> S_read, Source |-> S_teamPrefix \o S_ops]>>

\* a source is "user", or "team:" followed by at least one more character
WellFormedSource(source) ==
    \/ source = S_user
    \/ /\ Len(source) > Len(S_teamPrefix)
       /\ SubSeq(source, 1, Len(S_teamPrefix)) = S_teamPrefix

\* C22: every entry FetchRepositoryPermissions returns has a non-empty
\* username and a source that is "user" or "team:" followed by a non-empty slug.
C22_EntriesWellFormed ==
    Fetched =>
        \A k \in 1..Len(permissions) :
            /\ permissions[k].Username # Nil
            /\ WellFormedSource(permissions[k].Source)

\* C29: a collaborator whose permission lookup succeeded and who is in the
\* fetched member listing of one or more listed teams has exactly one entry,
\* and its source names the last of these teams in listing order.
C29_LastTeamWins ==
    (Fetched /\ ~access.collabErr) =>
        \A i \in LookedUp :
            LET login == access.collaborators[i].login
            IN  TeamsHolding(login) # {} =>
                  /\ Cardinality(EntriesOf(login)) = 1
                  /\ \A k \in EntriesOf(login) :
                        \E t \in TeamsHolding(login) :
                            /\ \A u \in TeamsHolding(login) : u <= t
                            /\ permissions[k].Source = S_teamPrefix \o access.teams[t].slug

C29_Witness ==
    /\ Fetched
    /\ access.collaborators = <<[login |-> S_ann, levelErr |-> FALSE, role |-> S_admin]>>
    /\ access.teams = <<[slug |-> S_ops, membersErr |-> FALSE, members |-> {S_ann}],
                        [slug |-> S_dev, membersErr |-> FALSE, members |-> {S_ann, S_bob}]>>
    /\ permissions = <<[Username |-> S_ann, Role |-> S_admin, Source |-> S_teamPrefix \o S_dev]>>

-----------------------------------------------------------------------------
(* The listing and the records of ScanOrganization, under SpecScan *)

\* the organization's repositories, in the provider's order
OrgRepos == [i \in 1..orgSize |-> RepoName(i)]

\* C23: while pages are being requested no repository is scanned and the list
\* holds the pages fetched so far in order; scanning runs only with the
\* complete list, the union of all pages in order; a step that scans a
\* repository leaves the list unchanged; at the end every listed repository and
\* no other has been scanned.
C23_ListBeforeScan ==
    /\ scanPc = "list" =>
          /\ scannedRepos = <<>>
          /\ Len(allRepos) <= orgSize
          /\ allRepos = SubSeq(OrgRepos, 1, Len(allRepos))
    /\ scannedRepos # <<>> => scanPc \in {"scan", "done"}
    /\ scanPc \in {"scan", "done"} =>
          /\ allRepos = OrgRepos
          /\ Len(scannedRepos) <= Len(allRepos)
    /\ scanPc = "done" => Len(scannedRepos) = Len(allRepos)

C23_Witness ==
    /\ scanPc = "done"
    /\ orgSize = MaxRepos
    /\ optPage = MaxRepos
    /\ allRepos = OrgRepos
    /\ Len(scannedRepos) = MaxRepos

\* the repositories whose detail fetch (Repositories.Get) failed
DetailFailed == {i \in Scanned : scanInputs[i].answer.getErr}

\* C26: ScanOrganization returns one record per listed repository, the i-th
\* record being the i-th listed repository's, each with a non-empty ScanResult;
\* a repository whose detail fetch failed has an empty record (no name, no
\* owner, no permissions) that carries the label of its evaluation.
C26_OneRecordPerRepository ==
    /\ scanPc = "done" => Len(scannedRepos) = Len(allRepos)
    /\ Len(scanInputs) = Len(scannedRepos)
    /\ \A i \in Scanned :
          /\ scannedRepos[i].ScanResult # Nil
          /\ i \notin DetailFailed => scannedRepos[i].Name = allRepos[i]
          /\ i \in DetailFailed =>
                /\ scannedRepos[i].Name = Nil
                /\ scannedRepos[i].Owner = Nil
                /\ scannedRepos[i].Permissions = <<>>
                /\ IsAllowed(VerdictOf(i)) => scannedRepos[i].ScanResult = S_Success
                /\ IsDenied(VerdictOf(i)) => scannedRepos[i].ScanResult = S_Failure
                /\ VerdictOf(i).err # Nil =>
                      scannedRepos[i].ScanResult \in {VerdictOf(i).err, S_RegoParsingError}

C26_Witness ==
    /\ scanPc = "done" /\ Len(scannedRepos) = MaxRepos
    /\ 1 \in DetailFailed
    /\ scannedRepos[1] = [EmptyRepositoryInfo EXCEPT !.ScanResult = S_Failure]
    /\ scannedRepos[MaxRepos].Name = RepoName(MaxRepos)
    /\ scannedRepos[MaxRepos].ScanResult = S_InvalidFormat

-----------------------------------------------------------------------------
(* Signals that are not booleans, under SpecResolver *)

\* the signal is present and its value is not a bool
SignalNotBool(name) == name \in DOMAIN Signals /\ Signals[name].kind # "bool"

\* the oracle's outcome with the signals that are not bools taken out of the map
WithoutNonBools ==
    [oracleOut EXCEPT !.rs[1].Expressions[1].m =
        [k \in {n \in DOMAIN Signals : Signals[n].kind = "bool"} |-> Signals[k]]]

\* C28: with a signal set in which "deny" or "allow" holds a value that is not
\* a bool, evaluatePolicy returns no error and the verdict it returns for the
\* same signal set without those values: one that is not a bool never denies
\* as "deny" and never allows as "allow".
C28_NonBoolIsAbsent ==
    (Evaluated /\ WellFormed /\ (SignalNotBool("deny") \/ SignalNotBool("allow"))) =>
        /\ verdict.err = Nil
        /\ verdict = evaluatePolicy(WithoutNonBools)
        /\ (SignalNotBool("deny") /\ SignalTrue("allow")) => Allowed
        /\ SignalNotBool("allow") => Denied

C28_Witness ==
    /\ Evaluated /\ WellFormed
    /\ "deny" \in DOMAIN Signals /\ Signals["deny"] = GoStringTrue
    /\ SignalTrue("allow")
    /\ Allowed

-----------------------------------------------------------------------------
(* The resolver across the evaluations of a scan, under SpecScan *)

-----------------------------------------------------------------------------
(* The allow-only and the deny-aware resolver, under SpecResolver *)

\* both resolvers have run on the same policy and input
BothEvaluated == Evaluated /\ allowOnly # NotRun

\* C30: on a policy result in which "deny" is absent or false the allow-only
\* and the deny-aware resolver return the same verdict, and so they do when the
\* oracle fails; on a well-formed policy result they return different verdicts
\* exactly when "deny" is true and "allow" is true.
C30_AllowOnlyAgrees ==
    BothEvaluated =>
        /\ (WellFormed /\ SignalAbsentOrFalse("deny")) => allowOnly.verdict = verdict
        /\ (oracleOut.prepErr # Nil \/ oracleOut.evalErr # Nil) => allowOnly.verdict = verdict
        /\ WellFormed =>
              (allowOnly.verdict # verdict <=> (SignalTrue("deny") /\ SignalTrue("allow")))

C30_Witness ==
    /\ BothEvaluated /\ WellFormed
    /\ "deny" \in DOMAIN Signals /\ Signals["deny"] = GoBool(FALSE)
    /\ SignalTrue("allow")
    /\ allowOnly.out.rs = <<[Expressions |-> <<GoBool(TRUE)>>]>>
    /\ allowOnly.verdict = [success |-> TRUE, err |-> Nil]
    /\ Allowed


-----------------------------------------------------------------------------
(* Claims about the ScanRepositories handler *)

Handled == rpcPc \notin {"idle", "recv"}

\* C25: when ORG_NAME is not set, ScanRepositories returns the response whose
\* error field is "ORG_NAME environment variable is missing" and which carries
\* no repositories, no scan is run and the server process keeps running
C25_MissingOrgNameAnswered ==
    (Handled /\ orgName = Nil) =>
        /\ rpcPc = "replied"
        /\ rpcRes = [Error |-> S_OrgNameMissing, Repositories |-> <<>>]
        /\ scanPc = "idle"


-----------------------------------------------------------------------------
(* Claims about the construction of the provider client *)

\* the callers that have made their provider call
Finished == {c \in Callers : callerPc[c] \in {"done", "panic"}}

\* the instances handed out so far, by getGitHubClient or by a use
Obtained == {got[c] : c \in Callers} \cup {used[c] : c \in Finished}

\* C27: under every interleaving of concurrent requests the provider client is
\* constructed at most once, every caller of getGitHubClient and of
\* InitGitHubClient has the same instance, and no caller makes its provider
\* call with a nil client
C27_OneClientNeverNil ==
    /\ once.built <= 1
    /\ \A c \in Callers :
        /\ callerPc[c] # "panic"
        /\ got[c] # 0 => got[c] = once.client
        /\ callerPc[c] = "done" => used[c] # 0 /\ used[c] = once.client
    /\ Cardinality(Obtained \ {0}) <= 1

\* two callers both found GitHubClient nil in InitGitHubClient, both called
\* getGitHubClient, and every caller has made its provider call
C27_Witness ==
    /\ Cardinality({c \in Callers : got[c] # 0 /\ view[c] # 0}) >= 2
    /\ \A c \in Callers : callerPc[c] = "done"

====
